---- MODULE Spec2Model ----
(***************************************************************************)
(* Tinker GRPO training loop (tinker_grpo.py) and the tool-call decoding   *)
(* of the OpenAI-compatible proxy (tinker_proxy.py).                       *)
(*                                                                         *)
(* Spec      : async_main, one run of the training loop, with the worker   *)
(*             pool of collect_rollouts and the training-service calls of  *)
(*             train_step.                                                 *)
(* DatumSpec : trajectories_to_training_data applied to one rollout group  *)
(*             drawn from a bounded set.                                   *)
(* CodecSpec : _parse_tool_calls applied to a generated text drawn from a  *)
(*             bounded set.                                                *)
(***************************************************************************)
EXTENDS Integers, Sequences, FiniteSets, TLC

(* ---- configuration (GRPOConfig) and bounds ---- *)
num_steps == 2
batch_size == 2
group_size == 2
max_workers == 1
save_every == 2
DatasetSize == 3
MaxGroup == 3
MaxBlocks == 2

(* ---- program constants ---- *)
MantBits == 53
eos_token_id == 9

VARIABLES
    pc,               \* where async_main (or the function under test) stands
    step,             \* async_main: step
    batch_indices,    \* async_main: batch_indices
    futures,          \* collect_rollouts: future_to_ds, one entry per call of the step
    results,          \* collect_rollouts: results
    rollout_groups,   \* async_main: rollout_groups
    stats,            \* async_main: num_rollouts, mean_reward, resolve_rate
    advantages,       \* trajectories_to_training_data: advantages of the group at hand
    training_data,    \* async_main: training_data
    fwd_bwd_result,   \* train_step: the loss of fwd_bwd_result
    step_metrics,     \* async_main: step_metrics as train_step returned it
    metrics_log,      \* async_main: metrics_log (and the lines of metrics.jsonl)
    calls,            \* the requests and replies of the main thread, in order
    env,              \* the interpreter's sum() and the tokenizer's special tokens
    text,             \* _parse_tool_calls: text; generate: completion_text
    tool_calls,       \* _parse_tool_calls: the returned list; generate: tool_calls
    config,           \* async_main: config (the fields that vary between runs)
    unsent,           \* the clients of the proxy that have not sent their request
    inbox,            \* the requests sent and not yet taken up by the server
    handling,         \* the request do_POST is in generate for
    sampled,          \* the calls of sampling_client.sample, in order
    wire              \* what the server has sent back, in order

vars == <<pc, step, batch_indices, futures, results, rollout_groups, stats,
          advantages, training_data, fwd_bwd_result, step_metrics, metrics_log, calls, env,
          text, tool_calls, config, unsent, inbox, handling, sampled, wire>>

\* the state of the proxy
http == <<unsent, inbox, handling, sampled, wire>>

NoRequest == [client |-> 0]

\* no proxy is part of the run
HttpIdle ==
    /\ unsent = {}
    /\ inbox = <<>>
    /\ handling = NoRequest
    /\ sampled = <<>>
    /\ wire = <<>>

Min(a, b) == IF a <= b THEN a ELSE b

(***************************************************************************)
(* Python float: IEEE-754 binary64, round to nearest, ties to even.        *)
(* TLC's integers have 32 bits, so a mantissa is a sequence of limbs       *)
(* (digits in base 2^LimbBits, least significant first, no leading zero    *)
(* limb).  Exponent range, infinities and NaN are left out: the values     *)
(* used stay far from them.                                                *)
(***************************************************************************)
LimbBits == 2 * 7

Pow2Table == <<2, 4, 8, 16, 32, 64, 128, 256, 512, 1024, 2048, 4096, 8192, 16384>>

\* 2^k for 0 <= k <= LimbBits
Pow2(k) == IF k = 0 THEN 1 ELSE Pow2Table[k]

RECURSIVE BitLen(_)
BitLen(n) == IF n = 0 THEN 0 ELSE 1 + BitLen(n \div 2)

LimbBase == Pow2(LimbBits)

RECURSIVE LTrim(_)
LTrim(a) ==
    IF a = <<>> THEN <<>>
    ELSE IF a[Len(a)] # 0 THEN a ELSE LTrim(SubSeq(a, 1, Len(a) - 1))

Limb(a, i) == IF i >= 1 /\ i <= Len(a) THEN a[i] ELSE 0

RECURSIVE LAdd(_, _, _)
LAdd(a, b, c) ==
    IF a = <<>> /\ b = <<>> THEN (IF c = 1 THEN <<1>> ELSE <<>>)
    ELSE LET s == Limb(a, 1) + Limb(b, 1) + c
         IN  <<s % LimbBase>> \o LAdd(IF a = <<>> THEN <<>> ELSE Tail(a),
                                      IF b = <<>> THEN <<>> ELSE Tail(b),
                                      s \div LimbBase)

\* a - b - c, for a >= b + c
RECURSIVE LSub(_, _, _)
LSub(a, b, c) ==
    IF a = <<>> THEN <<>>
    ELSE LET d == Head(a) - Limb(b, 1) - c
         IN  <<d % LimbBase>> \o LSub(Tail(a), IF b = <<>> THEN <<>> ELSE Tail(b),
                                      IF d < 0 THEN 1 ELSE 0)

RECURSIVE LLessFrom(_, _, _)
LLessFrom(a, b, i) ==
    IF i = 0 THEN FALSE
    ELSE IF a[i] # b[i] THEN a[i] < b[i] ELSE LLessFrom(a, b, i - 1)

LLess(a, b) ==
    IF Len(a) # Len(b) THEN Len(a) < Len(b) ELSE LLessFrom(a, b, Len(a))

LBitLen(a) == IF a = <<>> THEN 0 ELSE (Len(a) - 1) * LimbBits + BitLen(a[Len(a)])

\* bit i of a, the lowest being bit 1
LBit(a, i) == (Limb(a, ((i - 1) \div LimbBits) + 1) \div Pow2((i - 1) % LimbBits)) % 2

\* a * 2^k
LShl(a, k) ==
    LET q == k \div LimbBits
        r == k % LimbBits
    IN  IF a = <<>> THEN <<>>
        ELSE LTrim([i \in 1..q |-> 0] \o
                   [i \in 1..(Len(a) + 1) |->
                       ((Limb(a, i) * Pow2(r)) % LimbBase)
                       + (Limb(a, i - 1) \div Pow2(LimbBits - r))])

\* floor(a / 2^k)
LShr(a, k) ==
    LET q == k \div LimbBits
        r == k % LimbBits
    IN  IF Len(a) <= q THEN <<>>
        ELSE LTrim([i \in 1..(Len(a) - q) |->
                       (a[i + q] \div Pow2(r))
                       + (Limb(a, i + q + 1) % Pow2(r)) * Pow2(LimbBits - r)])

\* a mod 2^k is not 0
LLowBits(a, k) ==
    \/ \E i \in 1..Min(k \div LimbBits, Len(a)) : a[i] # 0
    \/ Limb(a, (k \div LimbBits) + 1) % Pow2(k % LimbBits) # 0

\* quotient and remainder of a by a small n, limbs i and above
RECURSIVE LDivFrom(_, _, _)
LDivFrom(a, n, i) ==
    IF i > Len(a) THEN [q |-> <<>>, r |-> 0]
    ELSE LET hi == LDivFrom(a, n, i + 1)
             r2 == hi.r * LimbBase + a[i]
         IN  [q |-> <<r2 \div n>> \o hi.q, r |-> r2 % n]

\* the number of zero bits below the lowest one bit of a, for a > 0, bit i on
RECURSIVE LowZeros(_, _)
LowZeros(a, i) ==
    IF (i - 1) % LimbBits = 0 /\ Limb(a, ((i - 1) \div LimbBits) + 1) = 0
    THEN LimbBits + LowZeros(a, i + LimbBits)
    ELSE IF LBit(a, i) = 1 THEN 0 ELSE 1 + LowZeros(a, i + 1)

\* A float is (-1)^neg * m * 2^e with m odd, or FZero.
FZero == [neg |-> FALSE, m |-> <<>>, e |-> 0]

Canon(neg, a, e) ==
    LET t == LTrim(a)
        z == LowZeros(t, 1)
    IN  IF t = <<>> THEN FZero
        ELSE [neg |-> neg, m |-> LShr(t, z), e |-> e + z]

\* a * 2^e (plus a nonzero tail below a when sticky) rounded to MantBits bits
RoundNearestEven(neg, a, e, sticky) ==
    LET t == LTrim(a)
        k == LBitLen(t) - MantBits
    IN  IF k <= 0 THEN Canon(neg, t, e)
        ELSE LET kept == LShr(t, k)
                 half == LBit(t, k) = 1
                 low  == sticky \/ LLowBits(t, k - 1)
                 up   == half /\ (low \/ LBit(kept, 1) = 1)
             IN  Canon(neg, IF up THEN LAdd(kept, <<1>>, 0) ELSE kept, e + k)

FAdd(x, y) ==
    LET e0 == Min(x.e, y.e)
        a  == LShl(x.m, x.e - e0)
        b  == LShl(y.m, y.e - e0)
    IN  IF x.m = <<>> THEN y
        ELSE IF y.m = <<>> THEN x
        ELSE IF x.neg = y.neg THEN RoundNearestEven(x.neg, LAdd(a, b, 0), e0, FALSE)
        ELSE IF LLess(a, b) THEN RoundNearestEven(y.neg, LSub(b, a, 0), e0, FALSE)
        ELSE RoundNearestEven(x.neg, LSub(a, b, 0), e0, FALSE)

FNeg(x) == IF x.m = <<>> THEN x ELSE [x EXCEPT !.neg = ~x.neg]

FSub(x, y) == FAdd(x, FNeg(y))

\* fabs(x) >= fabs(y)
FAbsGe(x, y) ==
    LET e0 == Min(x.e, y.e)
    IN  IF y.m = <<>> THEN TRUE
        ELSE IF x.m = <<>> THEN FALSE
        ELSE ~LLess(LShl(x.m, x.e - e0), LShl(y.m, y.e - e0))

\* x / n for an int n > 0
FDivInt(x, n) ==
    LET s == MantBits + 2 + BitLen(n)
        d == LDivFrom(LShl(x.m, s), n, 1)
    IN  IF x.m = <<>> THEN FZero
        ELSE RoundNearestEven(x.neg, d.q, x.e - s, d.r # 0)

FromInt(n) == Canon(n < 0, <<IF n < 0 THEN -n ELSE n>>, 0)

FIsZero(x) == x.m = <<>>

FPositive(x) == x.m # <<>> /\ ~x.neg

FOne == FromInt(1)

FHalf == [neg |-> FALSE, m |-> <<1>>, e |-> -1]

\* 0.1 = 0x1.999999999999ap-4 = 0xCCCCCCCCCCCCD * 2^-55
FTenth == [neg |-> FALSE, m |-> <<3277, 13107, 3276, 819>>, e |-> -55]

\* sum() before Python 3.12: a left fold of +, starting from int 0
RECURSIVE NaiveSum(_, _)
NaiveSum(acc, xs) ==
    IF xs = <<>> THEN acc ELSE NaiveSum(FAdd(acc, Head(xs)), Tail(xs))

\* sum() from Python 3.12 on: Neumaier's compensated summation
RECURSIVE NeumaierSum(_, _, _)
NeumaierSum(f, c, xs) ==
    IF xs = <<>> THEN (IF ~FIsZero(c) THEN FAdd(f, c) ELSE f)
    ELSE LET v == Head(xs)
             t == FAdd(f, v)
         IN  NeumaierSum(t,
                 FAdd(c, IF FAbsGe(f, v) THEN FAdd(FSub(f, t), v)
                                         ELSE FAdd(FSub(v, t), f)),
                 Tail(xs))

PySum(xs, e) == IF e.neumaier THEN NeumaierSum(FZero, FZero, xs) ELSE NaiveSum(FZero, xs)

(***************************************************************************)
(* tokenizer.encode: the text's tokens, after the special tokens the       *)
(* tokenizer puts first when add_special_tokens is set.  A text is a       *)
(* sequence of symbols; every symbol has a token id of its own.            *)
(***************************************************************************)
Vocab == <<"Fix the following issue:\n", "p", "a", "b">>

TokenId(c) == 10 + CHOOSE i \in 1..Len(Vocab) : Vocab[i] = c

Encode(t, add_special_tokens, e) ==
    (IF add_special_tokens THEN e.special_tokens ELSE <<>>)
    \o [i \in 1..Len(t) |-> TokenId(t[i])]

(***************************************************************************)
(* trajectories_to_training_data.  A rollout is the dict collect_rollouts  *)
(* appends: trajectory_json, reward, task_id.  trajectory_json stands for  *)
(* the serialized trajectory: kind "object" is the text of a JSON object   *)
(* with the two fields read here, kind "garbled" a text json.loads rejects.*)
(***************************************************************************)
Rewards(group) == [i \in 1..Len(group) |-> group[i].reward]

\* faulty variant of MeanReward: the baseline is the first reward, not the mean
FirstReward(rewards, e) == IF rewards # <<>> THEN rewards[1] ELSE FZero

MeanReward(rewards, e) ==
    IF rewards # <<>> THEN FDivInt(PySum(rewards, e), Len(rewards)) ELSE FZero

Advantages(group, e) ==
    LET rewards == Rewards(group)
        mean_reward == MeanReward(rewards, e)
    IN  [i \in 1..Len(rewards) |-> FSub(rewards[i], mean_reward)]

\* all(a == 0.0 for a in advantages)
NoSignal(advs) == \A i \in 1..Len(advs) : FIsZero(advs[i])

\* faulty variant of DatumOf: a rollout whose own advantage is zero is skipped
DatumOfSkipZero(rollout, advantage, e) ==
    IF rollout.trajectory_json.kind # "object" \/ FIsZero(advantage) THEN <<>>
    ELSE LET traj == rollout.trajectory_json
             prompt_tokens == Encode(<<Vocab[1]>> \o traj.problem_statement, TRUE, e)
             completion_tokens == Encode(traj.output_patch, FALSE, e)
             full_tokens == prompt_tokens \o completion_tokens
         IN  IF traj.output_patch = <<>> THEN <<>>
             ELSE <<[model_input   |-> full_tokens,
                     target_tokens |-> SubSeq(full_tokens, 2, Len(full_tokens))
                                       \o <<eos_token_id>>,
                     weights       |-> [i \in 1..Len(prompt_tokens) |-> FZero]
                                       \o [i \in 1..Len(completion_tokens) |-> advantage]]>>

\* faulty variant of DatumOf: the special tokens of the prompt get the
\* advantage as weight, and no end-of-sequence token closes the targets
DatumOfMisaligned(rollout, advantage, e) ==
    IF rollout.trajectory_json.kind # "object" THEN <<>>
    ELSE LET traj == rollout.trajectory_json
             prompt_tokens == Encode(<<Vocab[1]>> \o traj.problem_statement, TRUE, e)
             completion_tokens == Encode(traj.output_patch, FALSE, e)
             full_tokens == prompt_tokens \o completion_tokens
             bare == Len(Encode(<<Vocab[1]>> \o traj.problem_statement, FALSE, e))
         IN  IF traj.output_patch = <<>> THEN <<>>
             ELSE <<[model_input   |-> full_tokens,
                     target_tokens |-> SubSeq(full_tokens, 2, Len(full_tokens)),
                     weights       |-> [i \in 1..bare |-> FZero]
                                       \o [i \in 1..(Len(full_tokens) - bare) |-> advantage]]>>

\* the body of the loop over zip(group, advantages): the datum, or nothing
DatumOf(rollout, advantage, e) ==
    IF rollout.trajectory_json.kind # "object" THEN <<>>
    ELSE LET traj == rollout.trajectory_json
             prompt_text == <<Vocab[1]>> \o traj.problem_statement
             completion_text == traj.output_patch
             prompt_tokens == Encode(prompt_text, TRUE, e)
             completion_tokens == Encode(completion_text, FALSE, e)
             full_tokens == prompt_tokens \o completion_tokens
         IN  IF completion_text = <<>> THEN <<>>
             ELSE <<[model_input   |-> full_tokens,
                     target_tokens |-> SubSeq(full_tokens, 2, Len(full_tokens))
                                       \o <<eos_token_id>>,
                     weights       |-> [i \in 1..Len(prompt_tokens) |-> FZero]
                                       \o [i \in 1..Len(completion_tokens) |-> advantage]]>>

RECURSIVE ZipData(_, _, _, _)
ZipData(group, advs, i, e) ==
    IF i > Len(group) THEN <<>>
    ELSE DatumOf(group[i], advs[i], e) \o ZipData(group, advs, i + 1, e)

\* one group, from the test on its advantages on
GroupDataFrom(group, advs, e) ==
    IF NoSignal(advs) THEN <<>> ELSE ZipData(group, advs, 1, e)

GroupData(group, e) ==
    IF group = <<>> THEN <<>> ELSE GroupDataFrom(group, Advantages(group, e), e)

RECURSIVE trajectories_to_training_data(_, _)
trajectories_to_training_data(groups, e) ==
    IF groups = <<>> THEN <<>>
    ELSE GroupData(Head(groups), e) \o trajectories_to_training_data(Tail(groups), e)

(***************************************************************************)
(* Inputs.                                                                 *)
(***************************************************************************)
Envs == [neumaier : BOOLEAN, special_tokens : {<<>>, <<1>>}]

RewardVals == {FZero, FOne, FHalf, FTenth}

Patches == {<<>>, <<"a", "b">>}

Garbled == [kind |-> "garbled", problem_statement |-> <<>>, output_patch |-> <<>>]

TrajectoryJson(ps, patch) ==
    [kind |-> "object", problem_statement |-> ps, output_patch |-> patch]

SampleRollouts ==
    [trajectory_json : {TrajectoryJson(<<"p">>, p) : p \in Patches},
     reward : RewardVals, task_id : {0}]
    \cup {[trajectory_json |-> Garbled, reward |-> FOne, task_id |-> 0]}

SampleGroups == UNION {[1..n -> SampleRollouts] : n \in 0..MaxGroup}

NoStats == [num_rollouts |-> 0, mean_reward |-> FZero, resolve_rate |-> FZero]
NoMetrics == [loss |-> FZero, num_samples |-> 0]

(***************************************************************************)
(* DatumSpec: trajectories_to_training_data on one group.                  *)
(***************************************************************************)
DatumInit ==
    /\ pc = "group"
    /\ rollout_groups \in {<<g>> : g \in SampleGroups}
    /\ env \in Envs
    /\ advantages = <<>>
    /\ training_data = <<>>
    /\ step = 0 /\ batch_indices = <<>> /\ futures = <<>> /\ results = <<>>
    /\ stats = NoStats /\ fwd_bwd_result = FZero /\ step_metrics = NoMetrics
    /\ metrics_log = <<>> /\ calls = <<>> /\ text = <<>> /\ tool_calls = <<>>
    /\ config = [save_every |-> 0, max_workers |-> max_workers]
    /\ HttpIdle

\* lines 166-167: an empty group is passed over
DatumEmptyGroup ==
    /\ pc = "group"
    /\ rollout_groups[1] = <<>>
    /\ pc' = "returned"
    /\ UNCHANGED <<config, http, step, batch_indices, futures, results, rollout_groups, stats,
                   advantages, training_data, fwd_bwd_result, step_metrics,
                   metrics_log, calls, env, text, tool_calls>>

\* lines 170-172
DatumAdvantages ==
    /\ pc = "group"
    /\ rollout_groups[1] # <<>>
    /\ advantages' = Advantages(rollout_groups[1], env)
    /\ pc' = "zip"
    /\ UNCHANGED <<config, http, step, batch_indices, futures, results, rollout_groups, stats,
                   training_data, fwd_bwd_result, step_metrics,
                   metrics_log, calls, env, text, tool_calls>>

\* lines 175-215
DatumBuild ==
    /\ pc = "zip"
    /\ training_data' = GroupDataFrom(rollout_groups[1], advantages, env)
    /\ pc' = "returned"
    /\ UNCHANGED <<config, http, step, batch_indices, futures, results, rollout_groups, stats,
                   advantages, fwd_bwd_result, step_metrics,
                   metrics_log, calls, env, text, tool_calls>>

DatumNext == DatumEmptyGroup \/ DatumAdvantages \/ DatumBuild

DatumSpec == DatumInit /\ [][DatumNext]_vars

(***************************************************************************)
(* Properties of trajectories_to_training_data (under DatumSpec).          *)
(* The values of floats are compared in exact arithmetic: XAdd and XSum    *)
(* add without rounding.                                                   *)
(***************************************************************************)
XAdd(x, y) ==
    LET e0 == Min(x.e, y.e)
        a  == LShl(x.m, x.e - e0)
        b  == LShl(y.m, y.e - e0)
    IN  IF x.m = <<>> THEN y
        ELSE IF y.m = <<>> THEN x
        ELSE IF x.neg = y.neg THEN Canon(x.neg, LAdd(a, b, 0), e0)
        ELSE IF LLess(a, b) THEN Canon(y.neg, LSub(b, a, 0), e0)
        ELSE Canon(x.neg, LSub(a, b, 0), e0)

RECURSIVE XSum(_)
XSum(xs) == IF xs = <<>> THEN FZero ELSE XAdd(Head(xs), XSum(Tail(xs)))

XTimes(x, n) == XSum([i \in 1..n |-> x])

\* the floating-point tolerance: 2^-48, sixteen units in the last place of 1.0
Tolerance == [neg |-> FALSE, m |-> <<1>>, e |-> -48]

Within(x) == FAbsGe(Tolerance, x)

TheGroup == rollout_groups[1]

EqualRewards(group) ==
    \A i, j \in 1..Len(group) : group[i].reward = group[j].reward

\* the extracted completion text of the rollout is not empty
HasCompletion(rollout) ==
    /\ rollout.trajectory_json.kind = "object"
    /\ rollout.trajectory_json.output_patch # <<>>

\* the indices of the rollouts with a completion, in group order, from i on
RECURSIVE WithCompletion(_, _)
WithCompletion(group, i) ==
    IF i > Len(group) THEN <<>>
    ELSE (IF HasCompletion(group[i]) THEN <<i>> ELSE <<>>) \o WithCompletion(group, i + 1)

\* C6: for a group with at least one member, each advantage is the reward
\* minus the mean of the group's rewards (n * advantage_i differs from
\* n * reward_i - sum(rewards) by no more than the tolerance), and the
\* advantages of the group sum to zero within the tolerance.
C6_AdvantagesCentred ==
    pc \in {"zip", "returned"} /\ TheGroup # <<>> =>
        LET rewards == Rewards(TheGroup)
            n == Len(rewards)
            total == XSum(rewards)
        IN  /\ Len(advantages) = n
            /\ \A i \in 1..n :
                   Within(XAdd(XTimes(advantages[i], n),
                               FNeg(XAdd(XTimes(rewards[i], n), FNeg(total)))))
            /\ Within(XSum(advantages))

\* C6 witness: a group of three whose mean is rounded, so that the
\* advantages do not sum to zero exactly
C6_Witness ==
    /\ pc = "zip"
    /\ Len(TheGroup) = 3
    /\ ~EqualRewards(TheGroup)
    /\ ~FIsZero(XSum(advantages))

\* C7 as stated: a group in which every reward is equal contributes no
\* training datum, whatever its trajectories contain.
C7_EqualRewardsNoDatum ==
    pc = "returned" /\ EqualRewards(TheGroup) => training_data = <<>>

C9_DatumShape ==
    pc = "returned" /\ training_data # <<>> =>
        LET idx == WithCompletion(TheGroup, 1)
        IN  /\ Len(training_data) = Len(idx)
            /\ \A k \in 1..Len(idx) :
                   LET traj == TheGroup[idx[k]].trajectory_json
                       d == training_data[k]
                       np == Len(env.special_tokens) + 1 + Len(traj.problem_statement)
                       nc == Len(traj.output_patch)
                   IN  /\ d.model_input =
                             env.special_tokens
                             \o [i \in 1..(np - Len(env.special_tokens)) |->
                                    TokenId((<<Vocab[1]>> \o traj.problem_statement)[i])]
                             \o [i \in 1..nc |-> TokenId(traj.output_patch[i])]
                       /\ Len(d.model_input) = np + nc
                       /\ Len(d.weights) = np + nc
                       /\ Len(d.target_tokens) = np + nc
                       /\ \A i \in 1..np : d.weights[i] = FZero
                       /\ \A i \in (np + 1)..(np + nc) : d.weights[i] = advantages[idx[k]]
                       /\ \A i \in 1..(np + nc - 1) : d.target_tokens[i] = d.model_input[i + 1]
                       /\ d.target_tokens[np + nc] = eos_token_id

\* C9 witness: a datum built with special tokens before the prompt and a
\* nonzero advantage over the completion
C9_Witness ==
    /\ pc = "returned"
    /\ training_data # <<>>
    /\ env.special_tokens # <<>>
    /\ \E k \in 1..Len(training_data) :
           ~FIsZero(training_data[k].weights[Len(training_data[k].weights)])

(***************************************************************************)
(* Spec: async_main.                                                       *)
(*                                                                         *)
(* A future of the pool is queued, running, or resolved and handed out by   *)
(* as_completed: "succeeded" when runagent returned a trajectory text that *)
(* deserializes, "failed" otherwise.                                       *)
(* runagent produces a trajectory text that deserializes ("traj"), one     *)
(* that Trajectory.load_from_model_dump_json rejects ("undecodable"),      *)
(* None ("none"), or raises ("raise").                                     *)
(***************************************************************************)
LoopRewards == {FZero, FOne}

LossVals == {FZero, FOne}

LoopEnvs == {[neumaier |-> FALSE, special_tokens |-> <<>>],
             [neumaier |-> TRUE, special_tokens |-> <<1>>]}

\* (the sample has no unresolved rollout that left a patch)
Outcomes ==
    {o \in [kind : {"traj"}, reward : LoopRewards, patch : Patches] :
        FPositive(o.reward) \/ o.patch = <<>>}
    \cup [kind : {"undecodable", "none", "raise"}, reward : {FZero}, patch : {<<>>}]

\* ds[idx]: the task's instance_id is its index, its problem statement a text
ProblemStatement(idx) == <<"p">>

\* the for loop of async_main stands at this entry of batch_indices
Current == Len(rollout_groups) + 1

Running(fs) == Cardinality({j \in DOMAIN fs : fs[j] = "running"})

Init ==
    /\ pc = "loop"
    /\ step = 0
    /\ batch_indices = <<>>
    /\ futures = <<>>
    /\ results = <<>>
    /\ rollout_groups = <<>>
    /\ stats = NoStats
    /\ advantages = <<>>
    /\ training_data = <<>>
    /\ fwd_bwd_result = FZero
    /\ step_metrics = NoMetrics
    /\ metrics_log = <<>>
    /\ calls = <<>>
    /\ env \in LoopEnvs
    /\ text = <<>>
    /\ tool_calls = <<>>
    /\ config \in [save_every : {0, save_every}, max_workers : {max_workers}]
    /\ HttpIdle

\* faulty variant of SelectBatch: the loop runs for one step more
SelectBatchOneMore ==
    /\ pc = "loop"
    /\ step <= num_steps
    /\ batch_indices' = [i \in 1..batch_size |->
                            (step * batch_size + (i - 1)) % DatasetSize]
    /\ rollout_groups' = <<>>
    /\ pc' = "for_idx"
    /\ UNCHANGED <<config, http, step, futures, results, stats, advantages, training_data,
                   fwd_bwd_result, step_metrics, metrics_log, calls, env, text,
                   tool_calls>>

\* faulty variant of SelectBatch: every batch starts at the head of the dataset
SelectBatchFromHead ==
    /\ pc = "loop"
    /\ step < num_steps
    /\ batch_indices' = [i \in 1..batch_size |-> (i - 1) % DatasetSize]
    /\ rollout_groups' = <<>>
    /\ pc' = "for_idx"
    /\ UNCHANGED <<config, http, step, futures, results, stats, advantages, training_data,
                   fwd_bwd_result, step_metrics, metrics_log, calls, env, text,
                   tool_calls>>

\* lines 277-288: the next step begins, its batch is selected
SelectBatch ==
    /\ pc = "loop"
    /\ step < num_steps
    /\ batch_indices' = [i \in 1..batch_size |->
                            (step * batch_size + (i - 1)) % DatasetSize]
    /\ rollout_groups' = <<>>
    /\ pc' = "for_idx"
    /\ UNCHANGED <<config, http, step, futures, results, stats, advantages, training_data,
                   fwd_bwd_result, step_metrics, metrics_log, calls, env, text,
                   tool_calls>>

\* lines 289-295 and 109-128: collect_rollouts is called for the next index
\* of the batch; a pool is created and group_size jobs are submitted to it
SubmitJobs ==
    /\ pc = "for_idx"
    /\ Current <= Len(batch_indices)
    /\ futures' = Append(futures,
                         [j \in 1..group_size |-> "queued"])
    /\ results' = <<>>
    /\ calls' = Append(calls, [op |-> "submit", step |-> step,
                               arg |-> batch_indices[Current]])
    /\ pc' = "as_completed"
    /\ UNCHANGED <<config, http, step, batch_indices, rollout_groups, stats, advantages,
                   training_data, fwd_bwd_result, step_metrics, metrics_log, env,
                   text, tool_calls>>

\* faulty variant of StartJob: a job starts whether or not a worker is free
StartJobUnbounded(j) ==
    /\ pc = "as_completed"
    /\ futures[Current][j] = "queued"
    /\ futures' = [futures EXCEPT ![Current][j] = "running"]
    /\ UNCHANGED <<config, http, pc, step, batch_indices, results, rollout_groups,
                   stats, advantages, training_data, fwd_bwd_result, step_metrics,
                   metrics_log, calls, env, text, tool_calls>>

\* a worker process of the pool takes the queued job submitted first
\* (line 114: max_workers)
StartJob(j) ==
    /\ pc = "as_completed"
    /\ futures[Current][j] = "queued"
    /\ \A k \in 1..(j - 1) : futures[Current][k] # "queued"
    /\ Running(futures[Current]) < config.max_workers
    /\ futures' = [futures EXCEPT ![Current][j] = "running"]
    /\ UNCHANGED <<config, http, pc, step, batch_indices, results, rollout_groups, stats,
                   advantages, training_data, fwd_bwd_result, step_metrics,
                   metrics_log, calls, env, text, tool_calls>>

\* faulty variant of Handled: a failure loses what the siblings contributed
HandledLosingSiblings(res, o, idx) ==
    IF o.kind = "traj"
    THEN Append(res, [trajectory_json |-> TrajectoryJson(ProblemStatement(idx), o.patch),
                      reward |-> o.reward,
                      task_id |-> idx])
    ELSE <<>>

\* lines 132-142: what the body of the as_completed loop leaves in results
Handled(res, o, idx) ==
    IF o.kind = "traj"
    THEN Append(res, [trajectory_json |-> TrajectoryJson(ProblemStatement(idx), o.patch),
                      reward |-> o.reward,
                      task_id |-> idx])
    ELSE res

\* runagent ends in its worker, the future is resolved, and as_completed
\* hands it to the loop body of lines 131-142
FinishJob(j, o) ==
    /\ pc = "as_completed"
    /\ futures[Current][j] = "running"
    /\ results' = Handled(results, o, batch_indices[Current])
    /\ futures' = [futures EXCEPT ![Current][j] =
                        IF o.kind = "traj" THEN "succeeded" ELSE "failed"]
    /\ UNCHANGED <<config, http, pc, step, batch_indices, rollout_groups, stats, advantages,
                   training_data, fwd_bwd_result, step_metrics, metrics_log, calls,
                   env, text, tool_calls>>

Resolved == {"succeeded", "failed"}

\* faulty variant of Exhausted: the first resolved future ends the wait
FirstCompleted(fs) == \E j \in DOMAIN fs : fs[j] \in Resolved

\* as_completed is exhausted once every future has been handed out
Exhausted(fs) == \A j \in DOMAIN fs : fs[j] \in Resolved

\* faulty variant of ReturnGroup: a group without rollouts is not appended
ReturnGroupDroppingEmpty ==
    /\ pc = "as_completed"
    /\ Exhausted(futures[Current])
    /\ rollout_groups' = IF results = <<>> THEN rollout_groups
                         ELSE Append(rollout_groups, results)
    /\ pc' = IF Current = Len(batch_indices) THEN "stats" ELSE "for_idx"
    /\ UNCHANGED <<config, http, step, batch_indices, futures, results, stats, advantages,
                   training_data, fwd_bwd_result, step_metrics, metrics_log, calls,
                   env, text, tool_calls>>

\* faulty variant of ReturnGroup: the pool is left without waiting for the
\* jobs that are still running
ReturnGroupWithoutWaiting ==
    /\ pc = "as_completed"
    /\ \A j \in 1..group_size : futures[Current][j] # "queued"
    /\ rollout_groups' = Append(rollout_groups, results)
    /\ pc' = IF Current = Len(batch_indices) THEN "stats" ELSE "for_idx"
    /\ UNCHANGED <<config, http, step, batch_indices, futures, results, stats, advantages,
                   training_data, fwd_bwd_result, step_metrics, metrics_log, calls,
                   env, text, tool_calls>>

\* lines 144 and 296: the pool is shut down, collect_rollouts returns and the
\* group is appended
ReturnGroup ==
    /\ pc = "as_completed"
    /\ Exhausted(futures[Current])
    /\ rollout_groups' = Append(rollout_groups, results)
    /\ pc' = IF Current = Len(batch_indices) THEN "stats" ELSE "for_idx"
    /\ UNCHANGED <<config, http, step, batch_indices, futures, results, stats, advantages,
                   training_data, fwd_bwd_result, step_metrics, metrics_log, calls,
                   env, text, tool_calls>>

RECURSIVE Flatten(_)
Flatten(groups) == IF groups = <<>> THEN <<>> ELSE Head(groups) \o Flatten(Tail(groups))

\* faulty variant of RolloutStats: the figures are taken after the groups
\* with equal rewards have been dropped
RolloutStatsAfterFiltering(groups, e) ==
    LET all_rewards == Rewards(Flatten(SelectSeq(groups, LAMBDA g : ~EqualRewards(g))))
        num_rollouts == Len(all_rewards)
        resolved == Cardinality({i \in 1..num_rollouts : FPositive(all_rewards[i])})
    IN  [num_rollouts |-> num_rollouts,
         mean_reward  |-> IF num_rollouts > 0
                          THEN FDivInt(PySum(all_rewards, e), num_rollouts) ELSE FZero,
         resolve_rate |-> IF num_rollouts > 0
                          THEN FDivInt(FromInt(resolved), num_rollouts) ELSE FZero]

\* lines 299-302
RolloutStats(groups, e) ==
    LET all_rewards == Rewards(Flatten(groups))
        num_rollouts == Len(all_rewards)
        resolved == Cardinality({i \in 1..num_rollouts : FPositive(all_rewards[i])})
    IN  [num_rollouts |-> num_rollouts,
         mean_reward  |-> IF num_rollouts > 0
                          THEN FDivInt(PySum(all_rewards, e), num_rollouts) ELSE FZero,
         resolve_rate |-> IF num_rollouts > 0
                          THEN FDivInt(FromInt(resolved), num_rollouts) ELSE FZero]

\* lines 298-307
ComputeStep ==
    /\ pc = "stats"
    /\ stats' = RolloutStats(rollout_groups, env)
    /\ training_data' = trajectories_to_training_data(rollout_groups, env)
    /\ pc' = "train_step"
    /\ UNCHANGED <<config, http, step, batch_indices, futures, results, rollout_groups, advantages,
                   fwd_bwd_result, step_metrics, metrics_log, calls, env, text,
                   tool_calls>>

\* faulty variant of SkipTraining: the empty batch is submitted all the same
TrainOnEmpty ==
    /\ pc = "train_step"
    /\ training_data = <<>>
    /\ calls' = Append(calls, [op |-> "forward_backward", step |-> step, arg |-> 0])
    /\ pc' = "fwd_bwd"
    /\ UNCHANGED <<config, http, step, batch_indices, futures, results, rollout_groups, stats,
                   advantages, training_data, fwd_bwd_result, step_metrics,
                   metrics_log, env, text, tool_calls>>

\* lines 224-225: train_step on an empty batch
SkipTraining ==
    /\ pc = "train_step"
    /\ training_data = <<>>
    /\ step_metrics' = [loss |-> FZero, num_samples |-> 0]
    /\ pc' = "record"
    /\ UNCHANGED <<config, http, step, batch_indices, futures, results, rollout_groups, stats,
                   advantages, training_data, fwd_bwd_result, metrics_log, calls, env,
                   text, tool_calls>>

\* lines 227-229: forward_backward_async is issued
ForwardBackward ==
    /\ pc = "train_step"
    /\ training_data # <<>>
    /\ calls' = Append(calls, [op |-> "forward_backward", step |-> step, arg |-> 0])
    /\ pc' = "fwd_bwd"
    /\ UNCHANGED <<config, http, step, batch_indices, futures, results, rollout_groups, stats,
                   advantages, training_data, fwd_bwd_result, step_metrics,
                   metrics_log, env, text, tool_calls>>

\* line 230: its result is received; the loss is metrics["loss"], or 0.0
ForwardBackwardResult(loss) ==
    /\ pc = "fwd_bwd"
    /\ fwd_bwd_result' = loss
    /\ calls' = Append(calls, [op |-> "forward_backward_result", step |-> step,
                               arg |-> 0])
    /\ pc' = "optim"
    /\ UNCHANGED <<config, http, step, batch_indices, futures, results, rollout_groups, stats,
                   advantages, training_data, step_metrics, metrics_log, env, text,
                   tool_calls>>

\* faulty variant of OptimStep: issued while forward_backward is in flight
OptimStepPipelined ==
    /\ pc = "fwd_bwd"
    /\ calls' = Append(calls, [op |-> "optim_step", step |-> step, arg |-> 0])
    /\ pc' = "optim_wait"
    /\ UNCHANGED <<config, http, step, batch_indices, futures, results, rollout_groups, stats,
                   advantages, training_data, fwd_bwd_result, step_metrics,
                   metrics_log, env, text, tool_calls>>

\* lines 232-235: optim_step_async is issued
OptimStep ==
    /\ pc = "optim"
    /\ calls' = Append(calls, [op |-> "optim_step", step |-> step, arg |-> 0])
    /\ pc' = "optim_wait"
    /\ UNCHANGED <<config, http, step, batch_indices, futures, results, rollout_groups, stats,
                   advantages, training_data, fwd_bwd_result, step_metrics,
                   metrics_log, env, text, tool_calls>>

\* lines 236-241: its result is received, train_step returns
OptimResult ==
    /\ pc = "optim_wait"
    /\ calls' = Append(calls, [op |-> "optim_step_result", step |-> step, arg |-> 0])
    /\ step_metrics' = [loss |-> fwd_bwd_result, num_samples |-> Len(training_data)]
    /\ pc' = "record"
    /\ UNCHANGED <<config, http, step, batch_indices, futures, results, rollout_groups, stats,
                   advantages, training_data, fwd_bwd_result, metrics_log, env, text,
                   tool_calls>>

\* faulty variant of RecordMetrics: the log is written anew with each record
RecordMetricsOverwriting ==
    /\ pc = "record"
    /\ metrics_log' = <<[step |-> step,
                         loss |-> step_metrics.loss,
                         num_samples |-> step_metrics.num_samples,
                         num_rollouts |-> stats.num_rollouts,
                         mean_reward |-> stats.mean_reward,
                         resolve_rate |-> stats.resolve_rate]>>
    /\ calls' = Append(calls, [op |-> "metrics", step |-> step, arg |-> 0])
    /\ batch_indices' = <<>>
    /\ futures' = <<>>
    /\ results' = <<>>
    /\ rollout_groups' = <<>>
    /\ stats' = NoStats
    /\ training_data' = <<>>
    /\ fwd_bwd_result' = FZero
    /\ step_metrics' = NoMetrics
    /\ pc' = "checkpoint"
    /\ UNCHANGED <<config, http, step, advantages, env, text, tool_calls>>

\* lines 311-324: the step's record is appended to metrics_log and written
\* to metrics.jsonl (time_s, the wall clock, is left out).  The locals of the
\* iteration are dead from here on (each is assigned again before it is
\* read) and are put back to their initial values.
RecordMetrics ==
    /\ pc = "record"
    /\ metrics_log' = Append(metrics_log,
                             [step |-> step,
                              loss |-> step_metrics.loss,
                              num_samples |-> step_metrics.num_samples,
                              num_rollouts |-> stats.num_rollouts,
                              mean_reward |-> stats.mean_reward,
                              resolve_rate |-> stats.resolve_rate])
    /\ calls' = Append(calls, [op |-> "metrics", step |-> step, arg |-> 0])
    /\ batch_indices' = <<>>
    /\ futures' = <<>>
    /\ results' = <<>>
    /\ rollout_groups' = <<>>
    /\ stats' = NoStats
    /\ training_data' = <<>>
    /\ fwd_bwd_result' = FZero
    /\ step_metrics' = NoMetrics
    /\ pc' = "checkpoint"
    /\ UNCHANGED <<config, http, step, advantages, env, text, tool_calls>>

\* faulty variant of CheckpointDue: the step's index is tested, not its count
CheckpointDueOffByOne == config.save_every > 0 /\ step % config.save_every = 0

\* line 327
CheckpointDue == config.save_every > 0 /\ (step + 1) % config.save_every = 0

\* lines 327-333: the periodic checkpoint, then the next iteration
SaveCheckpoint ==
    /\ pc = "checkpoint"
    /\ CheckpointDue
    /\ calls' = Append(calls, [op |-> "save_weights", step |-> step,
                               arg |-> <<"checkpoint-", step + 1>>])
    /\ step' = step + 1
    /\ pc' = "loop"
    /\ UNCHANGED <<config, http, batch_indices, futures, results, rollout_groups, stats, advantages,
                   training_data, fwd_bwd_result, step_metrics, metrics_log, env, text,
                   tool_calls>>

\* line 327 false: straight to the next iteration
NextStep ==
    /\ pc = "checkpoint"
    /\ ~CheckpointDue
    /\ step' = step + 1
    /\ pc' = "loop"
    /\ UNCHANGED <<config, http, batch_indices, futures, results, rollout_groups, stats, advantages,
                   training_data, fwd_bwd_result, step_metrics, metrics_log, calls, env,
                   text, tool_calls>>

\* lines 335-341: the loop is over; the checkpoint named "final"
FinalCheckpoint ==
    /\ pc = "loop"
    /\ step >= num_steps
    /\ calls' = Append(calls, [op |-> "save_weights", step |-> step,
                               arg |-> <<"final">>])
    /\ pc' = "done"
    /\ UNCHANGED <<config, http, step, batch_indices, futures, results, rollout_groups, stats,
                   advantages, training_data, fwd_bwd_result, step_metrics,
                   metrics_log, env, text, tool_calls>>

Next ==
    \/ SelectBatch
    \/ SubmitJobs
    \/ \E j \in 1..group_size : StartJob(j)
    \/ \E j \in 1..group_size : \E o \in Outcomes : FinishJob(j, o)
    \/ ReturnGroup
    \/ ComputeStep
    \/ SkipTraining
    \/ ForwardBackward
    \/ \E loss \in LossVals : ForwardBackwardResult(loss)
    \/ OptimStep
    \/ OptimResult
    \/ RecordMetrics
    \/ SaveCheckpoint
    \/ NextStep
    \/ FinalCheckpoint

Spec == Init /\ [][Next]_vars

(***************************************************************************)
(* Properties of the training loop (under Spec).                           *)
(***************************************************************************)
\* the positions in calls of the events op of step s
Positions(op, s) ==
    {p \in 1..Len(calls) : calls[p].op = op /\ calls[p].step = s}

TrainingOps == {"forward_backward", "forward_backward_result",
                "optim_step", "optim_step_result"}

Succeeded(fs) == Cardinality({j \in DOMAIN fs : fs[j] = "succeeded"})

\* the groups of the step that collect_rollouts has returned
Returned == 1..Len(rollout_groups)

Collecting == pc \in {"for_idx", "as_completed", "stats", "train_step", "fwd_bwd",
                      "optim", "optim_wait", "record"}

\* C1: a job that raises, returns no trajectory or returns an undecodable
\* one contributes no rollout to its group; every other job of the group
\* still runs and contributes its own rollout (the group holds exactly one
\* rollout per succeeded job, each for the group's task, and is returned
\* only when every job of it has run); the failure does not leave the
\* collector: the loop stays on its course.
C1_FailureIsolated ==
    /\ pc = "as_completed" =>
          /\ Len(results) = Succeeded(futures[Current])
          /\ \A k \in 1..Len(results) : results[k].task_id = batch_indices[Current]
    /\ Collecting =>
          \A g \in Returned :
              /\ \A j \in 1..group_size : futures[g][j] \in Resolved
              /\ Len(rollout_groups[g]) = Succeeded(futures[g])
    /\ pc \in {"loop", "for_idx", "as_completed", "stats", "train_step", "fwd_bwd",
               "optim", "optim_wait", "record", "checkpoint", "done"}

\* C1 witness: a group returned with one job failed and a sibling's rollout
\* in it, and the step went on to training
C1_Witness ==
    /\ pc = "fwd_bwd"
    /\ \E g \in Returned :
          /\ \E j \in 1..group_size : futures[g][j] = "failed"
          /\ \E j \in 1..group_size : futures[g][j] = "succeeded"
          /\ rollout_groups[g] # <<>>

\* C2: the rollout groups handed to the advantage computation are one per
\* task of the step's batch, in the order the tasks were selected; a task
\* whose jobs all failed is there as an empty group; every rollout of the
\* i-th group was produced for the i-th task of the batch.
C2_OneGroupPerTask ==
    pc = "stats" =>
        /\ Len(batch_indices) = batch_size
        /\ Len(rollout_groups) = batch_size
        /\ \A i \in 1..batch_size :
              /\ batch_indices[i] = (step * batch_size + (i - 1)) % DatasetSize
              /\ \A k \in 1..Len(rollout_groups[i]) :
                    rollout_groups[i][k].task_id = batch_indices[i]
              /\ Succeeded(futures[i]) = 0 => rollout_groups[i] = <<>>
              /\ Succeeded(futures[i]) > 0 => rollout_groups[i] # <<>>

\* C2 witness: the first task's jobs all failed, the second task has rollouts
C2_Witness ==
    /\ pc = "stats"
    /\ rollout_groups[1] = <<>>
    /\ rollout_groups[2] # <<>>
    /\ batch_indices[1] # batch_indices[2]

\* C3: forward_backward of a step is not issued, and no training call is
\* in flight, while a rollout job of the step is unresolved; no rollout job
\* of the next step is submitted before the step's training calls have
\* completed and its metrics record has been appended.
C3_NoOverlap ==
    /\ \A g \in 1..Len(futures) : \A j \in 1..group_size :
          futures[g][j] \notin Resolved => pc = "as_completed" /\ g = Current
    /\ pc \in {"fwd_bwd", "optim", "optim_wait"} =>
          /\ Len(futures) = batch_size
          /\ \A g \in 1..Len(futures) : Exhausted(futures[g])
    /\ \A p \in 1..Len(calls) :
          calls[p].op = "forward_backward" =>
              Cardinality({q \in 1..(p - 1) : calls[q].op = "submit"
                                             /\ calls[q].step = calls[p].step})
              = batch_size
    /\ \A p \in 1..Len(calls) :
          calls[p].op = "submit" /\ calls[p].step > 0 =>
              LET prev == calls[p].step - 1
              IN  /\ \E q \in Positions("metrics", prev) : q < p
                  /\ Len(metrics_log) > prev
                  /\ \A q \in Positions("forward_backward", prev) :
                        \E r \in Positions("optim_step_result", prev) : q < r /\ r < p

\* C3 witness: the second step's rollouts are being collected after a first
\* step that trained
C3_Witness ==
    /\ pc = "as_completed"
    /\ step = 1
    /\ Positions("forward_backward", 0) # {}
    /\ \E j \in 1..group_size : futures[Current][j] = "running"

\* C4: a step with a non-empty training batch issues exactly one
\* forward_backward and exactly one optim_step, the optim_step only after
\* the result of forward_backward has been received, and no training call
\* of a later step is issued before the step's optim_step has completed.
C4_SequentialTraining ==
    /\ \A s \in 0..step : \A op \in TrainingOps : Cardinality(Positions(op, s)) <= 1
    /\ \A k \in 1..Len(metrics_log) :
          metrics_log[k].num_samples > 0 =>
              \A op \in TrainingOps : Cardinality(Positions(op, metrics_log[k].step)) = 1
    /\ pc \in {"fwd_bwd", "optim", "optim_wait", "record"} /\ training_data # <<>> =>
          Cardinality(Positions("forward_backward", step)) = 1
    /\ \A p \in 1..Len(calls) :
          calls[p].op = "optim_step" =>
              \E q \in Positions("forward_backward_result", calls[p].step) : q < p
    /\ \A p \in 1..Len(calls) :
          calls[p].op = "forward_backward_result" =>
              \E q \in Positions("forward_backward", calls[p].step) : q < p
    /\ \A p, q \in 1..Len(calls) :
          /\ calls[q].op = "optim_step"
          /\ calls[p].op \in TrainingOps
          /\ calls[p].step > calls[q].step
          => \E r \in Positions("optim_step_result", calls[q].step) : q < r /\ r < p

\* C4 witness: both steps trained
C4_Witness ==
    /\ pc = "done"
    /\ \A s \in 0..(num_steps - 1) : Positions("optim_step_result", s) # {}

\* C5: a step whose training batch is empty issues neither forward_backward
\* nor optim_step, appends a metrics record with loss 0 and num_samples 0,
\* and the loop goes on: every step that has ended has its record, and the
\* run ends with the final checkpoint.
C5_EmptyBatchIsNoOp ==
    /\ pc = "record" /\ training_data = <<>> =>
          /\ step_metrics = [loss |-> FZero, num_samples |-> 0]
          /\ \A op \in TrainingOps : Positions(op, step) = {}
    /\ \A k \in 1..Len(metrics_log) :
          /\ metrics_log[k].step = k - 1
          /\ metrics_log[k].num_samples = 0 =>
                /\ metrics_log[k].loss = FZero
                /\ \A op \in TrainingOps : Positions(op, k - 1) = {}
    /\ Len(metrics_log) = IF pc = "checkpoint" THEN step + 1 ELSE step
    /\ pc = "done" => step = num_steps /\ calls[Len(calls)].op = "save_weights"

\* C5 witness: the run is over; in the first step every job failed, in the
\* second there were rollouts but no datum; then the final checkpoint
C5_Witness ==
    /\ pc = "done"
    /\ metrics_log[1].num_samples = 0 /\ metrics_log[1].num_rollouts = 0
    /\ metrics_log[2].num_samples = 0 /\ metrics_log[2].num_rollouts > 0

\* the names of the checkpoints requested so far, in order
CheckpointNames ==
    LET saves == SelectSeq(calls, LAMBDA c : c.op = "save_weights")
    IN  [k \in 1..Len(saves) |-> saves[k].arg]

\* the periodic checkpoints of the steps 0 .. n-1 at cadence every
RECURSIVE PeriodicNames(_, _)
PeriodicNames(n, every) ==
    IF n = 0 THEN <<>>
    ELSE PeriodicNames(n - 1, every)
         \o (IF every > 0 /\ n % every = 0 THEN <<<<"checkpoint-", n>>>> ELSE <<>>)

\* C16: the checkpoint requests are, in order, checkpoint-(s+1) after each
\* step s whose count s+1 is a multiple of a positive cadence, requested
\* right after the step's metrics record and before the next step starts,
\* and then exactly one checkpoint "final", the last request of the run.
C16_CheckpointSchedule ==
    /\ CheckpointNames =
          PeriodicNames(step, config.save_every)
          \o (IF pc = "done" THEN <<<<"final">>>> ELSE <<>>)
    /\ \A p \in 1..Len(calls) :
          calls[p].op = "save_weights" /\ calls[p].arg # <<"final">> =>
              /\ p > 1
              /\ calls[p - 1].op = "metrics" /\ calls[p - 1].step = calls[p].step
              /\ calls[p].arg = <<"checkpoint-", calls[p].step + 1>>
    /\ pc = "done" =>
          /\ step = num_steps
          /\ calls[Len(calls)].arg = <<"final">>
          /\ Cardinality({p \in 1..Len(calls) :
                 calls[p].op = "save_weights" /\ calls[p].arg = <<"final">>}) = 1

\* C16 witness: a complete run whose last step triggered a periodic checkpoint
C16_Witness ==
    /\ pc = "done"
    /\ config.save_every > 0
    /\ CheckpointNames = <<<<"checkpoint-", num_steps>>, <<"final">>>>

\* C17: the metrics log is append-only with one record per step: the
\* records are those of the steps 0, 1, 2, ... in this order, an executed
\* step has exactly one, a complete run has num_steps of them, and a step
\* of the program leaves every earlier record as it was.
C17_MetricsAppendOnly ==
    /\ [](/\ \A k \in 1..Len(metrics_log) : metrics_log[k].step = k - 1
          /\ Len(metrics_log) = IF pc = "checkpoint" THEN step + 1 ELSE step
          /\ pc = "done" => Len(metrics_log) = num_steps)
    /\ [][/\ Len(metrics_log') \in {Len(metrics_log), Len(metrics_log) + 1}
          /\ SubSeq(metrics_log', 1, Len(metrics_log)) = metrics_log]_vars

\* C17 witness: a complete run, with its num_steps records
C17_Witness ==
    /\ pc = "done"
    /\ Len(metrics_log) = num_steps
    /\ metrics_log[num_steps].step = num_steps - 1

\* C18: at every moment the number of rollout jobs that are running is at
\* most max_workers.
C18_WorkersBounded ==
    \A g \in 1..Len(futures) :
        /\ Running(futures[g]) <= config.max_workers
        /\ \A h \in 1..Len(futures) : g # h => Running(futures[g]) = 0 \/ Running(futures[h]) = 0

\* C18 witness: every worker is busy and a job of the group waits for one
C18_Witness ==
    /\ pc = "as_completed"
    /\ Running(futures[Current]) = config.max_workers
    /\ \E j \in 1..group_size : futures[Current][j] = "queued"


(***************************************************************************)
(* CodecSpec: _parse_tool_calls (tinker_proxy.py).                         *)
(*                                                                         *)
(* A text is a sequence of pieces: the two tags, white space, the          *)
(* punctuation of JSON, and atoms that hold none of these (a "name"        *)
(* member, the "arguments" key with its colon, a JSON string, prose).      *)
(***************************************************************************)
OpenTag == "<tool_call>"
CloseTag == "</tool_call>"
Space == " "
NameF == "\"name\": \"f\""
NameG == "\"name\": \"g\""
ArgumentsKey == "\"arguments\":"
JsonString == "\"s\""
MemberX == "\"x\": 1"
Prose == "oops"

NameOf(piece) == IF piece = NameF THEN "f" ELSE "g"

\* the first position from i on that holds no white space
SkipSpace(t, i) ==
    IF \E k \in i..Len(t) : t[k] # Space
    THEN CHOOSE k \in i..Len(t) : t[k] # Space /\ \A l \in i..(k - 1) : t[l] = Space
    ELSE Len(t) + 1

\* _TOOL_CALL_RE tried at position i: the closing brace that ends group 1,
\* the first one that white space and the closing tag follow; 0 without a
\* match.  The dot of ".*?" takes any piece, the tags too (re.DOTALL).
BraceAt(t, i) ==
    LET j == SkipSpace(t, i + 1)
        ends == {k \in (j + 1)..Len(t) :
                    /\ t[k] = "}"
                    /\ SkipSpace(t, k + 1) <= Len(t)
                    /\ t[SkipSpace(t, k + 1)] = CloseTag}
    IN  IF t[i] = OpenTag /\ j <= Len(t) /\ t[j] = "{" /\ ends # {}
        THEN CHOOSE k \in ends : \A l \in ends : k <= l
        ELSE 0

\* a match of _TOOL_CALL_RE at i: where group 1 begins and ends, and the
\* position after the match
MatchAt(t, i) ==
    [from |-> SkipSpace(t, i + 1), to |-> BraceAt(t, i),
     next |-> SkipSpace(t, BraceAt(t, i) + 1) + 1]

\* json.loads on pieces without white space: the position after the value
\* that begins at i, 0 when there is none (JSONDecodeError)
RECURSIVE ValueEnd(_, _)
RECURSIVE MembersEnd(_, _)
MemberEnd(t, i) ==
    IF i > Len(t) THEN 0
    ELSE IF t[i] \in {NameF, NameG, MemberX} THEN i + 1
    ELSE IF t[i] = ArgumentsKey THEN ValueEnd(t, i + 1)
    ELSE 0

MembersEnd(t, i) ==
    LET m == MemberEnd(t, i)
    IN  IF m = 0 \/ m > Len(t) THEN 0
        ELSE IF t[m] = "," THEN MembersEnd(t, m + 1)
        ELSE IF t[m] = "}" THEN m + 1
        ELSE 0

ValueEnd(t, i) ==
    IF i > Len(t) THEN 0
    ELSE IF t[i] = JsonString THEN i + 1
    ELSE IF t[i] # "{" THEN 0
    ELSE IF i + 1 <= Len(t) /\ t[i + 1] = "}" THEN i + 2
    ELSE MembersEnd(t, i + 1)

NoSpace(t) == SelectSeq(t, LAMBDA piece : piece # Space)

\* json.loads accepts the text
IsJson(t) == NoSpace(t) # <<>> /\ ValueEnd(NoSpace(t), 1) = Len(NoSpace(t)) + 1

\* the members of the object whose first member begins at i: the position
\* of each key, in order
RECURSIVE MemberKeys(_, _)
MemberKeys(t, i) ==
    IF t[i] = "}" THEN <<>>
    ELSE <<i>> \o (IF t[MemberEnd(t, i)] = "," THEN MemberKeys(t, MemberEnd(t, i) + 1)
                   ELSE <<>>)

\* the key of the member that begins with the piece
KeyOf(piece) ==
    IF piece \in {NameF, NameG} THEN "name"
    ELSE IF piece = ArgumentsKey THEN "arguments"
    ELSE "x"

RECURSIVE Join(_)
Join(ss) ==
    IF ss = <<>> THEN <<>>
    ELSE IF Len(ss) = 1 THEN ss[1]
    ELSE ss[1] \o <<",", Space>> \o Join(Tail(ss))

\* json.dumps of the value json.loads made of the pieces from i on: a dict
\* keeps a key where it first occurred, with the value of its last
\* occurrence, and is written with ", " and ": " as separators
RECURSIVE DumpValue(_, _)
DumpMember(t, q) ==
    IF t[q] = ArgumentsKey THEN <<ArgumentsKey, Space>> \o DumpValue(t, q + 1)
    ELSE <<t[q]>>

DumpObject(t, i) ==
    LET keys == MemberKeys(t, i + 1)
        at == {keys[n] : n \in 1..Len(keys)}
        firsts == SelectSeq(keys, LAMBDA k :
                      \A l \in at : l < k => KeyOf(t[l]) # KeyOf(t[k]))
        LastOf(k) == CHOOSE q \in at :
                         /\ KeyOf(t[q]) = KeyOf(t[k])
                         /\ \A l \in at : KeyOf(t[l]) = KeyOf(t[k]) => l <= q
    IN  <<"{">>
        \o Join([n \in 1..Len(firsts) |-> DumpMember(t, LastOf(firsts[n]))])
        \o <<"}">>

DumpValue(t, i) == IF t[i] = JsonString THEN <<JsonString>> ELSE DumpObject(t, i)

\* the str a JSON string decodes to
StringOf(piece) == "s"

\* lines 173-186: the OpenAI tool call of the decoded object.  A key that
\* occurs twice has its last value; arguments that are a str are passed
\* on as they are, any other arguments are passed to json.dumps.
ToolCallOf(group) ==
    LET t == NoSpace(group)
        keys == MemberKeys(t, 2)
        names == SelectSeq(keys, LAMBDA k : t[k] \in {NameF, NameG})
        args == SelectSeq(keys, LAMBDA k : t[k] = ArgumentsKey)
        last == args[Len(args)]
    IN  [type |-> "function",
         name |-> IF names = <<>> THEN "" ELSE NameOf(t[names[Len(names)]]),
         arguments |-> IF args = <<>> THEN <<"{", "}">>
                       ELSE IF t[last + 1] = JsonString THEN <<StringOf(t[last + 1])>>
                       ELSE DumpValue(t, last + 1)]

\* lines 172-188: finditer from position i on
RECURSIVE ParseFrom(_, _)
ParseFrom(t, i) ==
    IF i > Len(t) THEN <<>>
    ELSE IF BraceAt(t, i) = 0 THEN ParseFrom(t, i + 1)
    ELSE LET m == MatchAt(t, i)
             group == SubSeq(t, m.from, m.to)
         IN  (IF IsJson(group) THEN <<ToolCallOf(group)>> ELSE <<>>)
             \o ParseFrom(t, m.next)

parse_tool_calls(t) == ParseFrom(t, 1)

\* the bodies of tagged blocks: tool-call objects, with the call each stands for
ValidBodies ==
    {[body |-> <<"{", NameF, "}">>,
      call |-> [type |-> "function", name |-> "f", arguments |-> <<"{", "}">>]],
     [body |-> <<Space, "{", NameG, ",", Space, ArgumentsKey, "{", "}", "}", Space>>,
      call |-> [type |-> "function", name |-> "g", arguments |-> <<"{", "}">>]],
     [body |-> <<"{", ArgumentsKey, JsonString, ",", NameG, "}">>,
      call |-> [type |-> "function", name |-> "g", arguments |-> <<"s">>]],
     [body |-> <<"{", NameF, ",", ArgumentsKey, "{", Space, MemberX, Space, "}", "}">>,
      call |-> [type |-> "function", name |-> "f",
                arguments |-> <<"{", MemberX, "}">>]]}

\* bodies that are no JSON: prose, nothing, an object cut short, an object
\* followed by prose, braces around prose, a brace too many
BadBodies ==
    {<<Prose>>,
     <<>>,
     <<"{", NameF>>,
     <<"{", NameF, "}", Space, Prose>>,
     <<"{", Prose, "}">>,
     <<"{", NameF, "}", "}">>}

Block(body) == <<OpenTag>> \o body \o <<CloseTag>>

Bodies == {v.body : v \in ValidBodies} \cup BadBodies

RECURSIVE Concat(_)
Concat(ss) == IF ss = <<>> THEN <<>> ELSE Head(ss) \o Concat(Tail(ss))

Texts == {Concat([i \in 1..Len(bs) |-> Block(bs[i])]) :
             bs \in UNION {[1..n -> Bodies] : n \in 0..MaxBlocks}}

CodecInit ==
    /\ pc = "call"
    /\ text \in Texts
    /\ tool_calls = <<>>
    /\ step = 0 /\ batch_indices = <<>> /\ futures = <<>> /\ results = <<>>
    /\ rollout_groups = <<>> /\ stats = NoStats /\ advantages = <<>>
    /\ training_data = <<>> /\ fwd_bwd_result = FZero /\ step_metrics = NoMetrics
    /\ metrics_log = <<>> /\ calls = <<>>
    /\ env = [neumaier |-> FALSE, special_tokens |-> <<>>]
    /\ config = [save_every |-> 0, max_workers |-> max_workers]
    /\ HttpIdle

\* lines 157-188
ParseToolCalls ==
    /\ pc = "call"
    /\ tool_calls' = parse_tool_calls(text)
    /\ pc' = "returned"
    /\ UNCHANGED <<config, http, step, batch_indices, futures, results, rollout_groups, stats,
                   advantages, training_data, fwd_bwd_result, step_metrics,
                   metrics_log, calls, env, text>>

CodecNext == ParseToolCalls

CodecSpec == CodecInit /\ [][CodecNext]_vars

\* C10 as stated: a text of one block whose body is no JSON and one block
\* whose body is a tool-call object, in either order, decodes to exactly
\* one tool call, that of the valid block.
C10_BadBlockSkipped ==
    pc = "returned" =>
        \A v \in ValidBodies : \A b \in BadBodies :
            text \in {Block(b) \o Block(v.body), Block(v.body) \o Block(b)}
            => tool_calls = <<v.call>>

\* the call of a block: that of its body when it is a tool-call object
CallsOfBody(body) ==
    IF \E v \in ValidBodies : v.body = body
    THEN <<(CHOOSE v \in ValidBodies : v.body = body).call>>
    ELSE <<>>

\* C12 as stated: every tagged block whose JSON parses yields exactly one
\* tool call, in the order of the blocks, with type "function", the name of
\* the block and the arguments as a JSON string (serialized when they are
\* no string, passed through when they are).
C12_OneCallPerParsedBlock ==
    pc = "returned" =>
        \A bs \in UNION {[1..n -> Bodies] : n \in 0..MaxBlocks} :
            text = Concat([i \in 1..Len(bs) |-> Block(bs[i])])
            => tool_calls = Concat([i \in 1..Len(bs) |-> CallsOfBody(bs[i])])

(***************************************************************************)
(* ProxySpec: the HTTP server of tinker_proxy.py.                          *)
(*                                                                         *)
(* Each client sends one request.  HTTPServer takes the requests up one    *)
(* at a time, in the order they arrived, and runs the handler to its end   *)
(* before it takes the next.  A temperature is a number of thousandths.    *)
(* A reply with status 0 stands for a connection closed without a          *)
(* response.                                                               *)
(***************************************************************************)
NumClients == 2

TemperatureFloor == 10
DefaultTemperature == 0

model_name == "Qwen/Qwen3-30B-A3B"

ChatPaths == {"/v1/chat/completions", "/chat/completions"}
ModelsPaths == {"/v1/models", "/models"}
HealthPath == "/health"

NoBody == [kind |-> "none", has_temperature |-> FALSE, temperature |-> 0,
           tools |-> "absent"]

\* a body that is a JSON object with these fields
JsonBody(has_temperature, temperature, tools) ==
    [kind |-> "object", has_temperature |-> has_temperature,
     temperature |-> temperature, tools |-> tools]

Temperatures == {0 - 1000, 0, 5, TemperatureFloor, 700}

\* the bodies of the POST requests: JSON objects, a JSON list, text that is
\* no JSON, and a body sent without a Content-Length header
ChatBodies ==
    {JsonBody(TRUE, t, "one") : t \in Temperatures}
    \cup {JsonBody(FALSE, 0, "one"), JsonBody(TRUE, 700, "absent"),
          JsonBody(TRUE, 700, "empty")}
    \cup {[NoBody EXCEPT !.kind = k] : k \in {"list", "not_json", "no_length"}}

Requests ==
    [method : {"POST"}, path : {"/v1/chat/completions"}, body : ChatBodies]
    \cup [method : {"POST"},
          path : {"/chat/completions", "/v1/models", HealthPath, "/v1/other"},
          body : {JsonBody(TRUE, 700, "one")}]
    \cup [method : {"GET"},
          path : ChatPaths \cup ModelsPaths \cup {HealthPath, "/v1/other"},
          body : {NoBody}]
    \cup [method : {"PUT"}, path : {"/v1/chat/completions", HealthPath},
          body : {NoBody}]

\* what the model generates, decoded
GeneratedTexts ==
    {<<>>,
     <<Prose>>,
     <<Prose, Space>> \o Block(<<"{", NameF, "}">>),
     <<Space>> \o Block(<<"{", NameF, "}">>),
     Block(<<Prose>>),
     Block(<<"{", NameF, "}">>) \o <<Prose>>
         \o Block(<<"{", NameG, ",", ArgumentsKey, JsonString, "}">>)}

NoOutput == [kind |-> "none", text |-> <<>>]

\* str.strip on pieces
RECURSIVE LStrip(_)
LStrip(t) == IF t # <<>> /\ Head(t) = Space THEN LStrip(Tail(t)) ELSE t

RECURSIVE RStrip(_)
RStrip(t) ==
    IF t # <<>> /\ t[Len(t)] = Space THEN RStrip(SubSeq(t, 1, Len(t) - 1)) ELSE t

Strip(t) == LStrip(RStrip(t))

\* re.split(r"<tool_call>", t, maxsplit=1)[0]
BeforeFirstTag(t) ==
    IF \E k \in 1..Len(t) : t[k] = OpenTag
    THEN SubSeq(t, 1, (CHOOSE k \in 1..Len(t) :
                          t[k] = OpenTag /\ \A l \in 1..(k - 1) : t[l] # OpenTag) - 1)
    ELSE t

\* line 106
Max(a, b) == IF a >= b THEN a ELSE b

\* faulty variant: the requested temperature is forwarded as it is
ForwardedVerbatim(temperature) == temperature

ForwardedTemperature(temperature) == Max(temperature, TemperatureFloor)

\* line 203: body.get("temperature", 0.0)
RequestedTemperature(body) ==
    IF body.has_temperature THEN body.temperature ELSE DefaultTemperature

\* line 96: tools is passed and is not empty
Truthy(tools) == tools = "one"

\* faulty variant: the content of a tool-call message is the whole text
CompletionWholeText(tools, completion_text, calls_found) ==
    IF calls_found # <<>>
    THEN [finish_reason |-> "tool_calls",
          content_is_none |-> completion_text = <<>>,
          content |-> completion_text,
          has_tool_calls |-> TRUE,
          tool_calls |-> calls_found]
    ELSE [finish_reason |-> "stop",
          content_is_none |-> FALSE,
          content |-> completion_text,
          has_tool_calls |-> FALSE,
          tool_calls |-> <<>>]

\* lines 121-130: the message and the finish reason
Completion(tools, completion_text, calls_found) ==
    IF calls_found # <<>>
    THEN [finish_reason |-> "tool_calls",
          content_is_none |-> Strip(BeforeFirstTag(completion_text)) = <<>>,
          content |-> Strip(BeforeFirstTag(completion_text)),
          has_tool_calls |-> TRUE,
          tool_calls |-> calls_found]
    ELSE [finish_reason |-> "stop",
          content_is_none |-> FALSE,
          content |-> completion_text,
          has_tool_calls |-> FALSE,
          tool_calls |-> <<>>]

Reply(request, output, status, body) ==
    [client |-> request.client, seq |-> request.seq, request |-> request,
     output |-> output, status |-> status, body |-> body]

ProxyInit ==
    /\ pc = "serve"
    /\ unsent = 1..NumClients
    /\ inbox = <<>>
    /\ handling = NoRequest
    /\ sampled = <<>>
    /\ wire = <<>>
    /\ text = <<>>
    /\ tool_calls = <<>>
    /\ config = [save_every |-> 0, max_workers |-> max_workers]
    /\ step = 0 /\ batch_indices = <<>> /\ futures = <<>> /\ results = <<>>
    /\ rollout_groups = <<>> /\ stats = NoStats /\ advantages = <<>>
    /\ training_data = <<>> /\ fwd_bwd_result = FZero /\ step_metrics = NoMetrics
    /\ metrics_log = <<>> /\ calls = <<>>
    /\ env = [neumaier |-> FALSE, special_tokens |-> <<>>]

\* a client sends its request; it waits in the listen queue of the socket
Send(c, r) ==
    /\ c \in unsent
    /\ unsent' = unsent \ {c}
    /\ inbox' = Append(inbox, [client |-> c, seq |-> NumClients - Cardinality(unsent) + 1,
                               method |-> r.method, path |-> r.path, body |-> r.body])
    /\ UNCHANGED <<pc, handling, sampled, wire, text, tool_calls, config, step,
                   batch_indices, futures, results, rollout_groups, stats, advantages,
                   training_data, fwd_bwd_result, step_metrics, metrics_log, calls, env>>

\* the server is in serve_forever and a request waits
Accepting == pc = "serve" /\ inbox # <<>>

\* the handler is done with the request at the head of inbox
Answer(status, body) ==
    /\ wire' = Append(wire, Reply(Head(inbox), NoOutput, status, body))
    /\ inbox' = Tail(inbox)
    /\ UNCHANGED <<pc, unsent, handling, sampled, text, tool_calls, config, step,
                   batch_indices, futures, results, rollout_groups, stats, advantages,
                   training_data, fwd_bwd_result, step_metrics, metrics_log, calls, env>>

EmptyBody == [kind |-> "empty"]

\* faulty variant: the health route is missing
do_GET_NoHealth ==
    /\ Accepting
    /\ Head(inbox).method = "GET"
    /\ IF Head(inbox).path \in ModelsPaths
       THEN Answer(200, [kind |-> "models",
                         data |-> <<[id |-> model_name, object |-> "model"]>>])
       ELSE Answer(404, EmptyBody)

\* lines 222-236
do_GET ==
    /\ Accepting
    /\ Head(inbox).method = "GET"
    /\ IF Head(inbox).path \in ModelsPaths
       THEN Answer(200, [kind |-> "models",
                         data |-> <<[id |-> model_name, object |-> "model"]>>])
       ELSE IF Head(inbox).path = HealthPath
       THEN Answer(200, EmptyBody)
       ELSE Answer(404, EmptyBody)

\* lines 195-196 and 218-220: a POST to another path
do_POST_NotFound ==
    /\ Accepting
    /\ Head(inbox).method = "POST"
    /\ Head(inbox).path \notin ChatPaths
    /\ Answer(404, EmptyBody)

\* the class has no do_PUT, do_DELETE, ...: BaseHTTPRequestHandler answers
\* 501 (handle_one_request, send_error(NOT_IMPLEMENTED))
UnsupportedMethod ==
    /\ Accepting
    /\ Head(inbox).method \notin {"GET", "POST"}
    /\ Answer(501, [kind |-> "error_page"])

\* lines 197-198: int(self.headers["Content-Length"]) or json.loads raises,
\* outside the try: socketserver logs the exception and closes the
\* connection; nothing has been sent
do_POST_Raises ==
    /\ Accepting
    /\ Head(inbox).method = "POST"
    /\ Head(inbox).path \in ChatPaths
    /\ Head(inbox).body.kind \in {"no_length", "not_json"}
    /\ Answer(0, EmptyBody)

\* lines 200-217: an exception before the model is sampled: body.get on a
\* body that is no object, or apply_chat_template raises
do_POST_GenerateRaisesEarly(error) ==
    /\ Accepting
    /\ Head(inbox).method = "POST"
    /\ Head(inbox).path \in ChatPaths
    /\ \/ Head(inbox).body.kind = "list" /\ error = "AttributeError"
       \/ Head(inbox).body.kind = "object" /\ error = "template error"
    /\ Answer(500, [kind |-> "error", error |-> error])

\* lines 200-207 and 91-113: generate is called and samples the model
do_POST_Sample ==
    /\ Accepting
    /\ Head(inbox).method = "POST"
    /\ Head(inbox).path \in ChatPaths
    /\ Head(inbox).body.kind = "object"
    /\ handling' = Head(inbox)
    /\ inbox' = Tail(inbox)
    /\ sampled' = Append(sampled,
           [temperature |-> ForwardedTemperature(RequestedTemperature(Head(inbox).body)),
            num_samples |-> 1])
    /\ pc' = "sample"
    /\ UNCHANGED <<unsent, wire, text, tool_calls, config, step,
                   batch_indices, futures, results, rollout_groups, stats, advantages,
                   training_data, fwd_bwd_result, step_metrics, metrics_log, calls, env>>

\* faulty variant: the exception is not caught and ends the server
SampleRaisesUncaught(error) ==
    /\ pc = "sample"
    /\ handling' = NoRequest
    /\ pc' = "stopped"
    /\ UNCHANGED <<unsent, inbox, sampled, wire, text, tool_calls, config, step,
                   batch_indices, futures, results, rollout_groups, stats, advantages,
                   training_data, fwd_bwd_result, step_metrics, metrics_log, calls, env>>

\* lines 114-118 and 212-217: future.result() or tokenizer.decode raises
SampleRaises(error) ==
    /\ pc = "sample"
    /\ wire' = Append(wire, Reply(handling, [kind |-> error, text |-> <<>>], 500,
                                  [kind |-> "error", error |-> error]))
    /\ handling' = NoRequest
    /\ pc' = "serve"
    /\ UNCHANGED <<unsent, inbox, sampled, text, tool_calls, config, step,
                   batch_indices, futures, results, rollout_groups, stats, advantages,
                   training_data, fwd_bwd_result, step_metrics, metrics_log, calls, env>>

\* lines 114-149 and 208-211: the sample arrives, the response is sent
SampleReturns(t) ==
    /\ pc = "sample"
    /\ text' = t
    /\ tool_calls' = IF Truthy(handling.body.tools) THEN parse_tool_calls(t) ELSE <<>>
    /\ wire' = Append(wire,
           Reply(handling, [kind |-> "text", text |-> t], 200,
                 [kind |-> "chat.completion",
                  model |-> model_name,
                  choice |-> Completion(handling.body.tools, t, tool_calls')]))
    /\ handling' = NoRequest
    /\ pc' = "serve"
    /\ UNCHANGED <<unsent, inbox, sampled, config, step,
                   batch_indices, futures, results, rollout_groups, stats, advantages,
                   training_data, fwd_bwd_result, step_metrics, metrics_log, calls, env>>

ProxyNext ==
    \/ \E c \in 1..NumClients : \E r \in Requests : Send(c, r)
    \/ do_GET
    \/ do_POST_NotFound
    \/ UnsupportedMethod
    \/ do_POST_Raises
    \/ \E error \in {"AttributeError", "template error"} : do_POST_GenerateRaisesEarly(error)
    \/ do_POST_Sample
    \/ \E error \in {"sample error", "decode error"} : SampleRaises(error)
    \/ \E t \in GeneratedTexts : SampleReturns(t)

ProxySpec == ProxyInit /\ [][ProxyNext]_vars

(***************************************************************************)
(* Properties of ProxySpec                                                 *)
(***************************************************************************)
\* the replies on the wire that carry a chat completion
ChatReplies ==
    {wire[k] : k \in {l \in 1..Len(wire) : wire[l].body.kind = "chat.completion"}}

ToolsSupplied(e) == e.request.body.tools # "absent"
ToolsNonEmpty(e) == e.request.body.tools = "one"
BlockParsed(e) == parse_tool_calls(e.output.text) # <<>>
Preceding(e) == BeforeFirstTag(e.output.text)

\* the message is a tool-call message whose content is this text, or absent
\* when the text is empty
ToolCallMessage(e, content) ==
    /\ e.body.choice.finish_reason = "tool_calls"
    /\ e.body.choice.has_tool_calls
    /\ e.body.choice.tool_calls # <<>>
    /\ e.body.choice.tool_calls = parse_tool_calls(e.output.text)
    /\ e.body.choice.content_is_none = (content = <<>>)
    /\ content # <<>> => e.body.choice.content = content

StopMessage(e) ==
    /\ e.body.choice.finish_reason = "stop"
    /\ ~e.body.choice.has_tool_calls
    /\ ~e.body.choice.content_is_none
    /\ e.body.choice.content = e.output.text

\* C11, amended: a chat completion is a tool-call message exactly when the
\* request carried a non-empty tools list and at least one block of the
\* output was parsed; its content is then the text before the first
\* <tool_call> tag with the white space at both ends removed, absent when
\* nothing is left.  In every other case the finish reason is "stop", there
\* are no tool_calls and content is the full decoded text.
C11_ToolCallsStripped ==
    \A e \in ChatReplies :
        IF ToolsNonEmpty(e) /\ BlockParsed(e)
        THEN ToolCallMessage(e, Strip(Preceding(e)))
        ELSE StopMessage(e)

\* a tool-call reply whose content differs from the text before the block
C11_Witness ==
    \E e \in ChatReplies :
        /\ e.body.choice.finish_reason = "tool_calls"
        /\ ~e.body.choice.content_is_none
        /\ e.body.choice.content # Preceding(e)

\* C11 as stated: a chat completion is a tool-call message whose content
\* equals the text preceding the first tagged block (absent when there is no
\* such text) exactly when tools were supplied and at least one block was
\* parsed; otherwise it is a "stop" message with the full text.
C11_ToolCallsVerbatim ==
    \A e \in ChatReplies :
        IF ToolsSupplied(e) /\ BlockParsed(e)
        THEN ToolCallMessage(e, Preceding(e))
        ELSE StopMessage(e)

\* the requests for which the model was sampled, in the order of the calls
SampledRequests ==
    [k \in 1..Len(SelectSeq(wire, LAMBDA e : e.output.kind # "none")) |->
        SelectSeq(wire, LAMBDA e : e.output.kind # "none")[k].request]
    \o (IF pc = "sample" THEN <<handling>> ELSE <<>>)

\* C13: for every requested temperature (0, the default of an omitted
\* field, a value below the floor, a negative value, a value above the
\* floor) the temperature forwarded to the sampling service is strictly
\* positive, equal to the requested value when that is at least the floor
\* and to the floor otherwise; a chat request with temperature 0 whose
\* sample arrives and decodes is answered with 200.
C13_TemperatureClamped ==
    /\ Len(sampled) = Len(SampledRequests)
    /\ \A k \in 1..Len(sampled) :
          LET requested == IF SampledRequests[k].body.has_temperature
                           THEN SampledRequests[k].body.temperature
                           ELSE 0
          IN /\ sampled[k].temperature > 0
             /\ sampled[k].temperature =
                   IF requested >= TemperatureFloor THEN requested ELSE TemperatureFloor
    /\ \A k \in 1..Len(wire) :
          /\ wire[k].request.body.kind = "object"
          /\ wire[k].request.body.temperature = 0
          /\ wire[k].output.kind = "text"
          => wire[k].status = 200

\* a request with temperature 0 was sampled with the floor and answered 200
C13_Witness ==
    \E k \in 1..Len(sampled) :
        /\ k <= Len(wire)
        /\ SampledRequests[k].body.has_temperature
        /\ SampledRequests[k].body.temperature = 0
        /\ sampled[k].temperature = TemperatureFloor
        /\ \E l \in 1..Len(wire) :
              wire[l].request = SampledRequests[k] /\ wire[l].status = 200

\* the three routes of the handler
Routed(r) ==
    \/ r.method = "POST" /\ r.path \in {"/v1/chat/completions", "/chat/completions"}
    \/ r.method = "GET" /\ r.path \in {"/v1/models", "/models"}
    \/ r.method = "GET" /\ r.path = "/health"

HealthAndModels(e) ==
    /\ e.request.method = "GET" /\ e.request.path = "/health"
       => e.status = 200 /\ e.body = [kind |-> "empty"]
    /\ e.request.method = "GET" /\ e.request.path \in {"/v1/models", "/models"}
       => /\ e.status = 200
          /\ e.body.kind = "models"
          /\ Len(e.body.data) = 1
          /\ e.body.data[1].id = model_name

\* C14, amended: a GET or POST request outside the three routes (an unknown
\* path, a GET to the chat-completions path, a POST to the models or health
\* path) is answered with 404; a request with any other HTTP method is
\* answered with 501 by the base handler class; GET to the health path
\* returns 200 with an empty body and GET to a models path returns 200 with
\* one descriptor carrying the configured model id.
C14_NotFoundOrNotImplemented ==
    \A k \in 1..Len(wire) :
        /\ HealthAndModels(wire[k])
        /\ ~Routed(wire[k].request) /\ wire[k].request.method \in {"GET", "POST"}
           => wire[k].status = 404
        /\ wire[k].request.method \notin {"GET", "POST"} => wire[k].status = 501

\* one request with another method and one POST to an unknown path have
\* both been answered
C14_Witness ==
    /\ \E k \in 1..Len(wire) :
          wire[k].request.method = "PUT" /\ wire[k].status = 501
    /\ \E k \in 1..Len(wire) :
          /\ wire[k].request.method = "POST"
          /\ wire[k].request.path = "/v1/other"
          /\ wire[k].status = 404

\* C14 as stated: every request outside the three routes, a request with
\* any other HTTP method included, is answered with 404; health and models
\* as above.
C14_EverythingElseNotFound ==
    \A k \in 1..Len(wire) :
        /\ HealthAndModels(wire[k])
        /\ ~Routed(wire[k].request) => wire[k].status = 404

\* a chat-completions request whose body reached the try block
Generating(r) ==
    /\ r.method = "POST"
    /\ r.path \in {"/v1/chat/completions", "/chat/completions"}
    /\ r.body.kind \in {"object", "list"}

\* generation raised for this reply: no decoded text came out of it
GenerationRaised(e) == Generating(e.request) /\ e.output.kind # "text"

\* C15: when generation raises for a chat-completions request (before
\* sampling, in the remote sampling, or in decoding) the request is answered
\* with 500 and a JSON error body; the server goes on serving: no request is
\* lost, the server is in its loop or inside one handler, and a request
\* whose generation returns is answered with 200 whatever failed before it.
C15_FailureAnswered500 ==
    /\ \A k \in 1..Len(wire) :
          /\ GenerationRaised(wire[k])
             => wire[k].status = 500 /\ wire[k].body.kind = "error"
          /\ Generating(wire[k].request) /\ wire[k].output.kind = "text"
             => wire[k].status = 200 /\ wire[k].body.kind = "chat.completion"
    /\ pc \in {"serve", "sample"}
    /\ (pc = "serve") = (handling = NoRequest)
    /\ Cardinality(unsent) + Len(inbox) + Len(wire) + (IF pc = "sample" THEN 1 ELSE 0)
          = NumClients

\* a failed generation was answered with 500 and the request after it with 200
C15_Witness ==
    \E k \in 1..Len(wire) :
        /\ k > 1
        /\ GenerationRaised(wire[k - 1])
        /\ wire[k - 1].status = 500
        /\ wire[k].body.kind = "chat.completion"
        /\ wire[k].status = 200

\* serve_forever takes up a waiting request and runs its handler
Handle ==
    \/ do_GET
    \/ do_POST_NotFound
    \/ UnsupportedMethod
    \/ do_POST_Raises
    \/ \E error \in {"AttributeError", "template error"} : do_POST_GenerateRaisesEarly(error)
    \/ do_POST_Sample

\* future.result() returns or raises
SampleEnds ==
    \/ \E error \in {"sample error", "decode error"} : SampleRaises(error)
    \/ \E t \in GeneratedTexts : SampleReturns(t)

\* the server loop keeps running and the sampling service always answers
ProxyFairSpec == ProxySpec /\ WF_vars(Handle) /\ WF_vars(SampleEnds)

\* the generate calls that have sampled the model and not yet ended
InProgress == Len(sampled) - Len(SelectSeq(wire, LAMBDA e : e.output.kind # "none"))

\* the client has its response on the wire
Answered(c) == \E k \in 1..Len(wire) : wire[k].client = c /\ wire[k].status > 0

\* the handlers ran one after another, in the order the requests arrived,
\* and every chat completion is made of its own request and its own sample
OneAtATime ==
    /\ InProgress \in {0, 1}
    /\ InProgress = 1 <=> pc = "sample"
    /\ \A k \in 1..Len(wire) : wire[k].seq = k /\ wire[k].client = wire[k].request.client
    /\ \A k \in 1..Len(wire) :
          wire[k].body.kind = "chat.completion"
          => wire[k].body.choice.tool_calls =
                IF wire[k].request.body.tools = "one"
                THEN parse_tool_calls(wire[k].output.text) ELSE <<>>

\* C19 as stated: at no moment are two generate calls in progress, the
\* requests of several callers are handled one after another, the response
\* of a request depends on that request alone, and each request that was
\* sent eventually receives its own response.
C19_SerialAndAnswered ==
    /\ []OneAtATime
    /\ \A c \in 1..NumClients : (c \notin unsent) ~> Answered(c)

(***************************************************************************)
(* PayloadSpec: trajectories_to_training_data on the groups of one step,   *)
(* with malformed trajectory payloads.  Besides "object" and "garbled" a   *)
(* payload has the kinds "absent" (the rollout has no trajectory_json      *)
(* key), "none" (the value is None) and "non_object" (a text json.loads    *)
(* accepts and that is no object: [], null, "x", 5).                       *)
(***************************************************************************)
MaxPayloadGroups == 2

\* lines 180-187: json.loads raises JSONDecodeError on a garbled text and
\* the subscript raises KeyError on an absent key, both caught at line 181;
\* json.loads(None) raises TypeError and traj.get raises AttributeError on a
\* value that is no dict, and nothing catches these
Raising(rollout) == rollout.trajectory_json.kind \in {"none", "non_object"}

\* the conversion reaches a rollout that raises: it is in a group that is
\* neither empty nor passed over for equal rewards
RaisesOn(groups, e) ==
    \E g \in 1..Len(groups) :
        /\ groups[g] # <<>>
        /\ ~NoSignal(Advantages(groups[g], e))
        /\ \E i \in 1..Len(groups[g]) : Raising(groups[g][i])

PayloadRollouts ==
    [trajectory_json :
        {TrajectoryJson(<<"p">>, p) : p \in Patches}
        \cup {[Garbled EXCEPT !.kind = k] :
                 k \in {"garbled", "absent", "none", "non_object"}},
     reward : {FZero, FOne}, task_id : {0}]

PayloadGroups == UNION {[1..n -> PayloadRollouts] : n \in 0..group_size}

PayloadInit ==
    /\ pc = "convert"
    /\ rollout_groups \in UNION {[1..n -> PayloadGroups] : n \in 1..MaxPayloadGroups}
    /\ env = [neumaier |-> FALSE, special_tokens |-> <<1>>]
    /\ advantages = <<>>
    /\ training_data = <<>>
    /\ step = 0 /\ batch_indices = <<>> /\ futures = <<>> /\ results = <<>>
    /\ stats = NoStats /\ fwd_bwd_result = FZero /\ step_metrics = NoMetrics
    /\ metrics_log = <<>> /\ calls = <<>> /\ text = <<>> /\ tool_calls = <<>>
    /\ config = [save_every |-> 0, max_workers |-> max_workers]
    /\ HttpIdle

\* line 306: the conversion returns
PayloadConvert ==
    /\ pc = "convert"
    /\ ~RaisesOn(rollout_groups, env)
    /\ training_data' = trajectories_to_training_data(rollout_groups, env)
    /\ pc' = "converted"
    /\ UNCHANGED <<config, http, step, batch_indices, futures, results, rollout_groups, stats,
                   advantages, fwd_bwd_result, step_metrics,
                   metrics_log, calls, env, text, tool_calls>>

\* lines 180, 186: the exception leaves trajectories_to_training_data and
\* async_main, which has no handler: the step and the run end
PayloadRaise ==
    /\ pc = "convert"
    /\ RaisesOn(rollout_groups, env)
    /\ pc' = "raised"
    /\ UNCHANGED <<config, http, step, batch_indices, futures, results, rollout_groups, stats,
                   advantages, training_data, fwd_bwd_result, step_metrics,
                   metrics_log, calls, env, text, tool_calls>>

PayloadNext == PayloadConvert \/ PayloadRaise

PayloadSpec == PayloadInit /\ [][PayloadNext]_vars

\* the rollouts that must yield a datum: those with a completion text, in
\* the groups with at least two distinct rewards
RECURSIVE Convertible(_)
Convertible(groups) ==
    IF groups = <<>> THEN 0
    ELSE (IF EqualRewards(Head(groups)) THEN 0
          ELSE Len(WithCompletion(Head(groups), 1)))
         + Convertible(Tail(groups))

\* C20 as stated: a rollout whose payload is malformed (unparseable text,
\* missing payload, JSON that is not the expected object) or whose
\* completion text is empty yields no datum and raises nothing: the
\* conversion always returns, with one datum for each remaining rollout of
\* the groups that have distinct rewards.
C20_MalformedSkipped ==
    /\ pc # "raised"
    /\ pc = "converted" => Len(training_data) = Convertible(rollout_groups)

(***************************************************************************)
(* WidePoolSpec: async_main with a ceiling of the pool above group_size.   *)
(***************************************************************************)
WideInit ==
    /\ pc = "loop"
    /\ step = 0
    /\ batch_indices = <<>>
    /\ futures = <<>>
    /\ results = <<>>
    /\ rollout_groups = <<>>
    /\ stats = NoStats
    /\ advantages = <<>>
    /\ training_data = <<>>
    /\ fwd_bwd_result = FZero
    /\ step_metrics = NoMetrics
    /\ metrics_log = <<>>
    /\ calls = <<>>
    /\ env = [neumaier |-> FALSE, special_tokens |-> <<>>]
    /\ text = <<>>
    /\ tool_calls = <<>>
    /\ config = [save_every |-> save_every, max_workers |-> group_size + 1]
    /\ HttpIdle

WidePoolSpec == WideInit /\ [][Next]_vars

\* jobs of two tasks of the batch are running
Overlap ==
    \E g, h \in 1..Len(futures) :
        g # h /\ Running(futures[g]) > 0 /\ Running(futures[h]) > 0

Selected ==
    LET submits == SelectSeq(calls, LAMBDA c : c.op = "submit")
    IN  [k \in 1..Len(submits) |-> [step |-> submits[k].step, idx |-> submits[k].arg]]

\* C22: the task at position i (counted from 0) of the batch of step s is
\* dataset index (s * batch_size + i) mod N, N the dataset size: the
\* selections of a run, in order, are 0, 1, 2, ... wrapping at N, and a
\* complete run with num_steps * batch_size >= N has selected every index.
C22_RoundRobin ==
    /\ \A i \in 1..Len(batch_indices) :
          batch_indices[i] = (step * batch_size + (i - 1)) % DatasetSize
    /\ \A k \in 1..Len(Selected) :
          /\ Selected[k].idx = (k - 1) % DatasetSize
          /\ Selected[k].step = (k - 1) \div batch_size
          /\ Selected[k].idx =
                (Selected[k].step * batch_size + ((k - 1) % batch_size)) % DatasetSize
    /\ pc = "done" =>
          /\ Len(Selected) = num_steps * batch_size
          /\ num_steps * batch_size >= DatasetSize =>
                \A idx \in 0..(DatasetSize - 1) :
                    \E k \in 1..Len(Selected) : Selected[k].idx = idx

\* a complete run that went round the dataset: every index was selected and
\* index 0 a second time, in a batch that wraps
C22_Witness ==
    /\ pc = "done"
    /\ num_steps * batch_size >= DatasetSize
    /\ \A idx \in 0..(DatasetSize - 1) :
          \E k \in 1..Len(Selected) : Selected[k].idx = idx
    /\ \E k \in 2..Len(Selected) :
          /\ Selected[k].idx = 0
          /\ Selected[k - 1].idx = DatasetSize - 1
          /\ Selected[k].step = Selected[k - 1].step

\* the record rec is made of these groups: its figures are taken over all
\* their rollouts, its sample count over the rollouts that became data
FiguresOf(rec, groups) ==
    LET rewards == Rewards(Flatten(groups))
        n == Len(rewards)
        positive == Cardinality({i \in 1..n : ~rewards[i].neg /\ rewards[i].m # <<>>})
    IN  /\ rec.num_rollouts = n
        /\ n = 0 => rec.mean_reward = FZero /\ rec.resolve_rate = FZero
        /\ n > 0 =>
              /\ Within(XAdd(XTimes(rec.mean_reward, n), FNeg(XSum(rewards))))
              /\ Within(XAdd(XTimes(rec.resolve_rate, n), FNeg(FromInt(positive))))
        /\ rec.num_samples = Convertible(groups)
        /\ rec.num_samples <= rec.num_rollouts
        /\ rec.num_rollouts <= batch_size * group_size

\* C23: in the metrics record of every step num_rollouts, mean_reward and
\* resolve_rate are taken over all rollouts collected in the step (one for
\* each job that succeeded), those of the groups dropped for equal rewards
\* included, resolve_rate being the fraction of rollouts with a reward
\* above zero; num_samples counts only the rollouts that became data, so
\* num_samples <= num_rollouts <= batch_size * group_size.
C23_StatsBeforeFiltering ==
    [][pc = "record" =>
          /\ Len(metrics_log') = Len(metrics_log) + 1
          /\ metrics_log'[Len(metrics_log')].step = step
          /\ FiguresOf(metrics_log'[Len(metrics_log')], rollout_groups)
          /\ Len(rollout_groups) = batch_size
          /\ \A g \in 1..Len(rollout_groups) :
                Len(rollout_groups[g]) = Succeeded(futures[g])]_vars

\* the record of a step in which every job succeeded and all rewards but
\* one are 1: the groups without the odd reward were dropped for equal
\* rewards, their rollouts are in num_rollouts, and the one group left gave
\* data
C23_Witness ==
    /\ pc = "checkpoint"
    /\ metrics_log[Len(metrics_log)].num_rollouts = batch_size * group_size
    /\ XTimes(metrics_log[Len(metrics_log)].mean_reward, batch_size * group_size)
          = FromInt(batch_size * group_size - 1)
    /\ metrics_log[Len(metrics_log)].num_samples > 0
    /\ metrics_log[Len(metrics_log)].num_samples < group_size

\* the steps of the program other than ComputeStep, the ends of the rollout
\* jobs and the completions of the training calls
Proceed ==
    \/ SelectBatch
    \/ SubmitJobs
    \/ \E j \in 1..group_size : StartJob(j)
    \/ \E j \in 1..group_size : \E o \in Outcomes : FinishJob(j, o)
    \/ ReturnGroup
    \/ SkipTraining
    \/ ForwardBackward
    \/ \E loss \in LossVals : ForwardBackwardResult(loss)
    \/ OptimStep
    \/ OptimResult
    \/ RecordMetrics
    \/ SaveCheckpoint
    \/ NextStep
    \/ FinalCheckpoint

\* every rollout job ends, every call to the training service completes,
\* and the program itself keeps running.  ComputeStep is the one step that
\* is possible at "stats", and it leaves "stats": its weak fairness is
\* written as []<>(pc # "stats").
FairSpec == Spec /\ WF_vars(Proceed) /\ []<>(pc # "stats")

\* the request of the checkpoint "final"
IsFinal(c) == c.op = "save_weights" /\ c.arg = <<"final">>

\* the steps of the events recorded so far never go down, stay below
\* num_steps, and nothing follows the request of the checkpoint "final"
InOrder ==
    /\ step \in 0..num_steps
    /\ pc \notin {"loop", "done"} => step < num_steps
    /\ \A p \in 1..Len(calls) :
          /\ ~IsFinal(calls[p]) => calls[p].step \in 0..(num_steps - 1)
          /\ p > 1 => calls[p - 1].step <= calls[p].step
          /\ IsFinal(calls[p]) => p = Len(calls) /\ pc = "done"
    /\ \A s \in 0..(num_steps - 1) :
          /\ Cardinality(Positions("metrics", s)) <= 1
          /\ (Positions("metrics", s) # {}) = (s < step \/ (s = step /\ pc = "checkpoint"))
    /\ pc = "done" =>
          /\ step = num_steps
          /\ IsFinal(calls[Len(calls)])
          /\ \A s \in 0..(num_steps - 1) :
                /\ Cardinality(Positions("metrics", s)) = 1
                /\ Cardinality(Positions("submit", s)) = batch_size

\* C24: when every rollout job returns or fails and every training call
\* completes, a run executes the steps 0 .. num_steps-1 in increasing order,
\* each exactly once, then requests the final checkpoint and terminates; no
\* step with an index of num_steps or more is executed and nothing is
\* executed after the final checkpoint.
C24_RunTerminates ==
    /\ <>(pc = "done")
    /\ []InOrder
    /\ [][step' \in {step, step + 1} /\ (pc = "done" => vars' = vars)]_vars

\* the run is over: each step ran and the last request is the checkpoint "final"
C24_Witness ==
    /\ pc = "done"
    /\ step = num_steps
    /\ \A s \in 0..(num_steps - 1) : Positions("submit", s) # {} /\ Positions("metrics", s) # {}
    /\ IsFinal(calls[Len(calls)])

\* C25 as stated: every POST to a chat-completions path that the server has
\* handled has received exactly one response, with status 200 or 500,
\* whatever it contains: a body that is no JSON and a request without a
\* Content-Length header are answered with an error status.
C25_ChatPostAnswered ==
    \A k \in 1..Len(wire) :
        /\ wire[k].request.method = "POST"
        /\ wire[k].request.path \in {"/v1/chat/completions", "/chat/completions"}
        => /\ wire[k].status \in {200, 500}
           /\ \A l \in 1..Len(wire) : wire[l].client = wire[k].client => l = k
           /\ wire[k].request.body.kind \in {"not_json", "no_length"} => wire[k].status = 500

====
